---- MODULE Spec2Model ----
(***************************************************************************)
(* Model of the paralympics REST API (Flask + Flask-SQLAlchemy +           *)
(* Flask-Marshmallow): src/paralympics/routes.py, models.py, schemas.py,   *)
(* error_handlers.py.                                                      *)
(*                                                                         *)
(* The store is three tables (region, event, user).  Every route handler   *)
(* is one action; the sequential specification Spec runs one request at a  *)
(* time, SpecConc splits register() into its lookup and its                *)
(* insert-and-commit step for two concurrent requests.                     *)
(*                                                                         *)
(* paralympics/helpers.py (encode_auth_token, token_required) and          *)
(* paralympics/__init__.py (create_app, db) are imported by the sources    *)
(* but are not among them; what they do is taken from spec.md section 4.1  *)
(* and section 8 and marked as such.                                       *)
(***************************************************************************)
EXTENDS Integers, FiniteSets, Sequences, TLC

VARIABLES regions, events, users, now, held, last, reg

vars == <<regions, events, users, now, held, last, reg>>

(***************************************************************************)
(* Bounds of the model.                                                    *)
(***************************************************************************)
\* the clock runs from 0 to MaxTime
MaxTime == 2
\* event ids (SQLite rowids) run from 1 to MaxEventId
MaxEventId == 2

(***************************************************************************)
(* Values.                                                                 *)
(***************************************************************************)
\* a key that the JSON body does not carry
ABSENT == "<absent>"
\* JSON null / SQL NULL
NULL == "<null>"

NOCs == {"ITA", "NEW"}
RegionNames == {"Italy"}
NoteTexts == {"note"}
Years == {"1960"}
Emails == {"tester@mytesting.com", "a@b.com"}
Passwords == {"PlainTextPassword", "Xy12345!"}
EventIds == 1..MaxEventId
\* at most one user per email can be stored, plus one for a mutated model
UserIds == 1..(Cardinality(Emails) + 1)

(***************************************************************************)
(* Password hashing: models.py, User.set_password / User.check_password.   *)
(* werkzeug's generate_password_hash draws a random salt and stores it     *)
(* with the digest of salt and password; check_password_hash recomputes    *)
(* the digest of the candidate with the stored salt.                       *)
(***************************************************************************)
Digest(salt, password) == <<salt, password>>

generate_password_hash(salt, password) ==
    [salt |-> salt, digest |-> Digest(salt, password)]

check_password_hash(pwhash, password) ==
    Digest(pwhash.salt, password) = pwhash.digest

(***************************************************************************)
(* Tokens: helpers.py, from spec.md 4.1.  A token embeds the user id and   *)
(* an absolute expiry and is signed with the process-wide secret key.      *)
(***************************************************************************)
SECRET_KEY == "secret"
OtherKey == "not-the-secret"

\* the configured token lifetime
TokenLifetime == 1

Sign(uid, exp, key) == <<uid, exp, key>>

NoToken == [form |-> "absent", uid |-> 0, exp |-> 0, mac |-> <<0, 0, "">>]
Garbage == [form |-> "garbage", uid |-> 0, exp |-> 0, mac |-> <<0, 0, "">>]

encode_auth_token(user_id, t) ==
    [form |-> "jwt", uid |-> user_id, exp |-> t + TokenLifetime,
     mac |-> Sign(user_id, t + TokenLifetime, SECRET_KEY)]

\* the expiry of a token minted before or while the clock runs: minted
\* early enough, it has expired when the clock starts
ExpiryTimes == (0 - 1)..(MaxTime + TokenLifetime)

\* the payload of a token changed, the signature kept
Tampered(tok) ==
    {[tok EXCEPT !.uid = u, !.exp = e] : u \in UserIds, e \in ExpiryTimes}
        \ {tok}

\* tokens minted with the secret key for user 1
SignedTokens == {encode_auth_token(1, e - TokenLifetime) : e \in ExpiryTimes}

\* the same payloads signed with another key
ForgedTokens == {[tok EXCEPT !.mac = Sign(tok.uid, tok.exp, OtherKey)] : tok \in SignedTokens}

\* what a request's Authorization header can hold, besides a token the
\* client was issued at login: nothing, a string that is no token, a signed
\* token, a token signed with another key, a signed token with its payload
\* changed to another user
RequestTokens ==
    {NoToken, Garbage} \cup SignedTokens \cup ForgedTokens
        \cup {[tok EXCEPT !.uid = 2] : tok \in SignedTokens}

SignatureValid(tok) ==
    tok.form = "jwt" /\ tok.mac = Sign(tok.uid, tok.exp, SECRET_KEY)

Expired(tok, t) == t > tok.exp

\* token_required's decoding: presence, then signature, then expiry
decode_auth_token(tok, t) ==
    IF tok.form = "absent" THEN [ok |-> FALSE, uid |-> 0, err |-> "missing"]
    ELSE IF ~SignatureValid(tok) THEN [ok |-> FALSE, uid |-> 0, err |-> "invalid"]
    ELSE IF Expired(tok, t) THEN [ok |-> FALSE, uid |-> 0, err |-> "expired"]
    ELSE [ok |-> TRUE, uid |-> tok.uid, err |-> "ok"]

(***************************************************************************)
(* The tables: models.py.  A row is a record; a table is a set of rows.    *)
(***************************************************************************)
RegionRow == [NOC : NOCs \cup {NULL}, region : RegionNames \cup {NULL},
              notes : NoteTexts \cup {NULL}]

EventRow == [id : EventIds, NOC : NOCs \cup {NULL}, year : Years \cup {NULL}]

RegionByNOC(rs, code) == {r \in rs : r.NOC = code}

EventById(es, id) == {e \in es : e.id = id}

UserByEmail(us, email) == {u \in us : u.email = email}

\* SQLite gives a row without an id the largest stored id plus one
MaxOf(S) == IF S = {} THEN 0 ELSE CHOOSE x \in S : \A y \in S : y <= x

NextEventId(es) == MaxOf({e.id : e \in es}) + 1

NextUserId(us) == MaxOf({u.id : u \in us}) + 1

\* Region: NOC is the primary key, region is nullable=False
RegionConstraints(rs) ==
    /\ \A r \in rs : r.NOC # NULL /\ r.region # NULL
    /\ \A r1, r2 \in rs : r1.NOC = r2.NOC => r1 = r2

\* Event: id is the primary key, year is nullable=False, NOC is a
\* non-Optional Mapped column without nullable=, so NOT NULL
EventConstraints(es) ==
    /\ \A e \in es : e.NOC # NULL /\ e.year # NULL
    /\ \A e1, e2 \in es : e1.id = e2.id => e1 = e2

\* Event.NOC declared without its ForeignKey
EventForeignKeyMissing(rs, es) == TRUE

\* Event.NOC = mapped_column(ForeignKey("region.NOC"))
EventForeignKey(rs, es) == \A e \in es : e.NOC = NULL \/ RegionByNOC(rs, e.NOC) # {}

\* the store rejects a commit that breaks a declared foreign key (spec.md 8.8)
ForeignKeysEnforced == TRUE

\* User.email declared without unique=True
UserConstraintsEmailNotUnique(us) ==
    /\ \A u \in us : u.email # NULL
    /\ \A u1, u2 \in us : u1.id = u2.id => u1 = u2
    /\ \A u1, u2 \in us : u1.password_hash = u2.password_hash => u1 = u2

\* User: id is the primary key, email and password_hash are unique and NOT NULL
UserConstraints(us) ==
    /\ \A u \in us : u.email # NULL
    /\ \A u1, u2 \in us : u1.id = u2.id => u1 = u2
    /\ \A u1, u2 \in us : u1.email = u2.email => u1 = u2
    /\ \A u1, u2 \in us : u1.password_hash = u2.password_hash => u1 = u2

\* db.session.commit() of the region and event tables succeeds
CommitOK(rs, es) ==
    /\ RegionConstraints(rs)
    /\ EventConstraints(es)
    /\ ForeignKeysEnforced => EventForeignKey(rs, es)

(***************************************************************************)
(* Requests and responses.                                                 *)
(***************************************************************************)
\* path parameters: the stored codes and ids, and one that is never stored
PathCodes == NOCs \cup {"ZZZ"}
PathIds == 1..(MaxEventId + 1)

\* JSON bodies; id 0 stands for a body without "id"
RegionBodies == [NOC : NOCs \cup {ABSENT}, region : RegionNames \cup {ABSENT, NULL},
                 notes : NoteTexts \cup {ABSENT, NULL}]

EventBodies == [id : 0..MaxEventId, NOC : NOCs \cup {ABSENT}, year : Years \cup {ABSENT, NULL}]

\* login is tried with every password, register stores the first one
Credentials == [email : Emails \cup {ABSENT}, password : Passwords \cup {ABSENT}]

Registrations == [email : Emails \cup {ABSENT}, password : {"PlainTextPassword", ABSENT}]

\* what a client can send as its token: anything of RequestTokens, or the
\* token it kept from a login
Presented == RequestTokens \cup {held}

\* the record of the last request and of its response.  auth is what
\* decoding the request's token gives; entered, whether the handler body
\* ran; hit, whether what the request names is stored (the row of the path
\* parameter, the region of add_event's NOC, the user of register's email,
\* the user with login's email and password); valid, whether the body
\* passes the schema (register, login: carries email and password); email,
\* the email of a register or login request; uid and tok, the login response
Response(op, auth, entered, hit, valid, status, msg) ==
    [op |-> op, auth |-> auth, entered |-> entered, hit |-> hit, valid |-> valid,
     status |-> status, msg |-> msg, email |-> "", uid |-> 0, tok |-> NoToken]

NoRequest == Response("none", "none", FALSE, FALSE, TRUE, 0, "")

StoreUnchanged == UNCHANGED <<regions, events, users>>

(***************************************************************************)
(* token_required: helpers.py, from spec.md 4.1; routes.py applies it with *)
(* a decorator to the routes of Guarded.                                   *)
(***************************************************************************)
\* delete_region left without its decorator
GuardedExceptDeleteRegion ==
    {"add_event", "add_region", "delete_event",
     "event_update", "region_update", "register", "login"}

\* login left without its decorator
GuardedExceptLogin ==
    {"add_event", "add_region", "delete_event", "delete_region",
     "event_update", "region_update", "register"}

Guarded ==
    {"add_event", "add_region", "delete_event", "delete_region",
     "event_update", "region_update", "register", "login"}

Auth(tok) == decode_auth_token(tok, now).err

\* the decorator lets the request through to the handler
Admitted(op, tok) == op \in Guarded => decode_auth_token(tok, now).ok

\* what decoding gives for the tokens the decorator lets through, and for
\* those it stops
AdmittedAuth(op) == {Auth(tok) : tok \in {t \in Presented : Admitted(op, t)}}

RejectedAuth(op) == {Auth(tok) : tok \in {t \in Presented : ~Admitted(op, t)}}

\* the decorator answers 401 itself; the message names the failure
Unauthorized(op, auth) == Response(op, auth, FALSE, FALSE, TRUE, 401, "token " \o auth)

Reject(op) ==
    /\ \E auth \in RejectedAuth(op) : last' = Unauthorized(op, auth)
    /\ StoreUnchanged
    /\ UNCHANGED <<now, held, reg>>

(***************************************************************************)
(* Marshmallow schemas: schemas.py.                                        *)
(***************************************************************************)
\* RegionSchema.load: NOC and region are required and not nullable, notes
\* is optional and nullable; partial=True drops the required checks
RegionBodyValid(body, partial) ==
    /\ body.region # NULL
    /\ partial \/ (body.NOC # ABSENT /\ body.region # ABSENT)

\* EventSchema.load: year and NOC are required, id is not (autoincrement)
EventBodyValid(body, partial) ==
    /\ body.year # NULL
    /\ partial \/ (body.NOC # ABSENT /\ body.year # ABSENT)

\* load_instance=True: the fields of the body are set on the instance; a
\* new instance starts with every column unset
Put(old, new) == IF new = ABSENT THEN old ELSE new

RegionLoad(inst, body) ==
    LET base == IF inst = {} THEN [NOC |-> NULL, region |-> NULL, notes |-> NULL]
                ELSE CHOOSE r \in inst : TRUE
    IN [NOC |-> Put(base.NOC, body.NOC), region |-> Put(base.region, body.region),
        notes |-> Put(base.notes, body.notes)]

EventLoad(inst, body, es) ==
    LET base == IF inst = {} THEN [id |-> NextEventId(es), NOC |-> NULL, year |-> NULL]
                ELSE CHOOSE e \in inst : TRUE
    IN [id |-> IF body.id = 0 THEN base.id ELSE body.id,
        NOC |-> Put(base.NOC, body.NOC), year |-> Put(base.year, body.year)]

\* the schema's get_instance(): the stored row with the body's primary key
RegionInstance(body) == IF body.NOC = ABSENT THEN {} ELSE RegionByNOC(regions, body.NOC)

EventInstance(body) == IF body.id = 0 THEN {} ELSE EventById(events, body.id)

\* session.add of the loaded row in place of the instance it was loaded on;
\* a second row with a stored primary key is refused
RegionWrite(inst, row) ==
    [ok |-> \A r \in regions \ inst : r.NOC # row.NOC, rows |-> (regions \ inst) \cup {row}]

EventWrite(inst, row) ==
    [ok |-> \A e \in events \ inst : e.id # row.id, rows |-> (events \ inst) \cup {row}]

(***************************************************************************)
(* The routes: routes.py.  Each action is one request, from the decorator  *)
(* to the response, the commit included.                                   *)
(***************************************************************************)
Rest == UNCHANGED <<now, held, reg>>

\* GET /regions
get_regions ==
    /\ last' = Response("get_regions", "none", TRUE, TRUE, TRUE, 200, "regions")
    /\ StoreUnchanged /\ Rest

\* GET /regions/<code>: NoResultFound is caught and turned into abort(404)
get_region ==
    \E code \in PathCodes :
        /\ last' = IF RegionByNOC(regions, code) # {}
                   THEN Response("get_region", "none", TRUE, TRUE, TRUE, 200, "region")
                   ELSE Response("get_region", "none", TRUE, FALSE, TRUE, 404, "Region not found")
        /\ StoreUnchanged /\ Rest

\* GET /events
get_events ==
    /\ last' = Response("get_events", "none", TRUE, TRUE, TRUE, 200, "events")
    /\ StoreUnchanged /\ Rest

\* the status of a request whose handler raises an exception that is no
\* HTTPException: handle_exception(e) calls e.get_response(), which such an
\* exception does not have, and Flask answers 500
UnhandledStatus == 500

ServerError(op, auth, hit, valid) ==
    Response(op, auth, TRUE, hit, valid, UnhandledStatus, "Internal Server Error")

\* GET /events/<event_id>: scalar_one() raises NoResultFound, not caught
get_event ==
    \E id \in PathIds :
        /\ last' = IF EventById(events, id) # {}
                   THEN Response("get_event", "none", TRUE, TRUE, TRUE, 200, "event")
                   ELSE ServerError("get_event", "none", FALSE, TRUE)
        /\ StoreUnchanged /\ Rest

\* the body of add_event, after the decorator
add_event_body(auth, body) ==
    LET inst == EventInstance(body)
        row == EventLoad(inst, body, events)
        w == EventWrite(inst, row)
        hit == RegionByNOC(regions, body.NOC) # {}
    IN  /\ IF ~EventBodyValid(body, FALSE)
           THEN /\ last' = Response("add_event", auth, TRUE, hit, FALSE, 400,
                                     "validation error")
                /\ StoreUnchanged
           ELSE IF w.ok /\ CommitOK(regions, w.rows)
           THEN /\ row.id \in EventIds
                /\ events' = w.rows
                /\ last' = Response("add_event", auth, TRUE, hit, TRUE, 200, "Event added")
                /\ UNCHANGED <<regions, users>>
           ELSE /\ last' = ServerError("add_event", auth, hit, TRUE)
                /\ StoreUnchanged
        /\ Rest

\* POST /events
add_event ==
    \/ Reject("add_event")
    \/ \E auth \in AdmittedAuth("add_event"), body \in EventBodies : add_event_body(auth, body)

add_region_body(auth, body) ==
    LET inst == RegionInstance(body)
        row == RegionLoad(inst, body)
        w == RegionWrite(inst, row)
    IN  /\ IF ~RegionBodyValid(body, FALSE)
           THEN /\ last' = Response("add_region", auth, TRUE, FALSE, FALSE, 400,
                                     "validation error")
                /\ StoreUnchanged
           ELSE IF w.ok /\ CommitOK(w.rows, events)
           THEN /\ regions' = w.rows
                /\ last' = Response("add_region", auth, TRUE, FALSE, TRUE, 200, "Region added")
                /\ UNCHANGED <<events, users>>
           ELSE /\ last' = ServerError("add_region", auth, FALSE, TRUE)
                /\ StoreUnchanged
        /\ Rest

\* POST /regions
add_region ==
    \/ Reject("add_region")
    \/ \E auth \in AdmittedAuth("add_region"), body \in RegionBodies :
          add_region_body(auth, body)

\* scalar_one() raises NoResultFound, not caught
delete_event_body(auth, event_id) ==
    /\ IF EventById(events, event_id) # {}
       THEN /\ events' = events \ EventById(events, event_id)
            /\ last' = Response("delete_event", auth, TRUE, TRUE, TRUE, 200, "Event deleted")
            /\ UNCHANGED <<regions, users>>
       ELSE /\ last' = ServerError("delete_event", auth, FALSE, TRUE)
            /\ StoreUnchanged
    /\ Rest

\* DELETE /events/<int:event_id>
delete_event ==
    \/ Reject("delete_event")
    \/ \E auth \in AdmittedAuth("delete_event"), id \in PathIds : delete_event_body(auth, id)

\* session.delete(region): the relationship Region.events has no delete
\* cascade, so the unit of work sets the NOC of the region's events to NULL
\* before it deletes the region
RegionDeleted(inst) ==
    [regions |-> regions \ inst,
     events |-> {IF \E r \in inst : r.NOC = e.NOC THEN [e EXCEPT !.NOC = NULL] ELSE e :
                    e \in events}]

\* every SQLAlchemyError (NoResultFound, IntegrityError) is answered 404
delete_region_body(auth, noc_code) ==
    LET inst == RegionByNOC(regions, noc_code)
        d == RegionDeleted(inst)
    IN  /\ IF inst # {} /\ CommitOK(d.regions, d.events)
           THEN /\ regions' = d.regions
                /\ events' = d.events
                /\ last' = Response("delete_region", auth, TRUE, TRUE, TRUE, 200, "Region deleted")
                /\ UNCHANGED users
           ELSE /\ last' = Response("delete_region", auth, TRUE, inst # {}, TRUE, 404,
                                     "Region not found")
                /\ StoreUnchanged
        /\ Rest

\* DELETE /regions/<noc_code>
delete_region ==
    \/ Reject("delete_region")
    \/ \E auth \in AdmittedAuth("delete_region"), code \in PathCodes :
          delete_region_body(auth, code)

\* the mapped attributes of Event (models.py); filter_by with a keyword
\* that is none of them raises InvalidRequestError
EventAttributes == {"id", "type", "year", "country", "host", "NOC", "region", "start",
                    "end", "duration", "disabilities_included", "countries", "events",
                    "sports", "participants_m", "participants_f", "participants",
                    "highlights"}

\* the keyword event_update filters Event by
EventUpdateFilter == "event_id"

\* what event_update does once its query has returned: region_update's
\* steps, on events
event_update_load(auth, event_id, body) ==
    LET existing == EventById(events, event_id)
        inst == IF existing # {} THEN existing ELSE EventInstance(body)
        row == EventLoad(inst, body, events)
        w == EventWrite(inst, row)
    IN  /\ IF ~EventBodyValid(body, TRUE)
           THEN /\ last' = Response("event_update", auth, TRUE, existing # {}, FALSE, 400,
                                     "validation error")
                /\ StoreUnchanged
           ELSE IF row.id \in EventIds /\ w.ok /\ CommitOK(regions, w.rows)
           THEN /\ events' = w.rows
                /\ last' = Response("event_update", auth, TRUE, existing # {}, TRUE, 200,
                                     "Event updated")
                /\ UNCHANGED <<regions, users>>
           ELSE /\ last' = ServerError("event_update", auth, existing # {}, TRUE)
                /\ StoreUnchanged
        /\ Rest

\* the query raises before request.get_json() is reached: the response is
\* the same for every body, valid records whether the body sent would pass
event_update_body(auth, event_id) ==
    IF EventUpdateFilter \notin EventAttributes
    THEN /\ \E valid \in {EventBodyValid(body, TRUE) : body \in EventBodies} :
              last' = ServerError("event_update", auth, EventById(events, event_id) # {}, valid)
         /\ StoreUnchanged
         /\ Rest
    ELSE \E body \in EventBodies : event_update_load(auth, event_id, body)

\* PATCH /events/<event_id>
event_update ==
    \/ Reject("event_update")
    \/ \E auth \in AdmittedAuth("event_update"), id \in PathIds : event_update_body(auth, id)

region_update_body(auth, noc_code, body) ==
    LET existing == RegionByNOC(regions, noc_code)
        inst == IF existing # {} THEN existing ELSE RegionInstance(body)
        row == RegionLoad(inst, body)
        w == RegionWrite(inst, row)
    IN  /\ IF ~RegionBodyValid(body, TRUE)
           THEN /\ last' = Response("region_update", auth, TRUE, existing # {}, FALSE, 400,
                                     "validation error")
                /\ StoreUnchanged
           ELSE IF w.ok /\ CommitOK(w.rows, events)
           THEN /\ regions' = w.rows
                /\ last' = Response("region_update", auth, TRUE, existing # {}, TRUE, 200,
                                     "Region updated")
                /\ UNCHANGED <<events, users>>
           ELSE /\ last' = ServerError("region_update", auth, existing # {}, TRUE)
                /\ StoreUnchanged
        /\ Rest

\* PATCH /regions/<noc_code>
region_update ==
    \/ Reject("region_update")
    \/ \E auth \in AdmittedAuth("region_update"), code \in PathCodes, body \in RegionBodies :
          region_update_body(auth, code, body)

(***************************************************************************)
(* register and login: routes.py.                                          *)
(***************************************************************************)
\* the lookup filtering by a column that never matches
register_lookup_nothing(us, post_data) == {}

\* db.select(User).filter_by(email=post_data.get("email")).scalar_one_or_none()
register_lookup(us, post_data) == UserByEmail(us, post_data.email)

\* the try block of register: User(email=...), set_password, add, commit.
\* generate_password_hash(None) raises, a commit that breaks a constraint
\* of User raises, and every exception is answered 500.  The salt is
\* random; the model draws a fresh one with the new row's id.
register_insert(us, post_data) ==
    LET id == NextUserId(us)
        user == [id |-> id,
                 email |-> IF post_data.email = ABSENT THEN NULL ELSE post_data.email,
                 password_hash |-> generate_password_hash(id, post_data.password)]
    IN  IF post_data.password # ABSENT /\ UserConstraints(us \cup {user})
        THEN [status |-> 201, msg |-> "Successfully registered.", users |-> us \cup {user}]
        ELSE [status |-> 500, msg |-> "An error occurred. Please try again.", users |-> us]

\* the body carries an email and a password
CredentialsPresent(cred) == cred.email # ABSENT /\ cred.password # ABSENT

register_body(auth, post_data) ==
    LET found == register_lookup(users, post_data)
        ins == register_insert(users, post_data)
        valid == CredentialsPresent(post_data)
    IN  /\ IF found = {}
           THEN /\ NextUserId(users) \in UserIds
                /\ users' = ins.users
                /\ last' = [Response("register", auth, TRUE, FALSE, valid, ins.status, ins.msg)
                                EXCEPT !.email = post_data.email]
           ELSE /\ users' = users
                /\ last' = [Response("register", auth, TRUE, TRUE, valid, 409,
                                      "User already exists. Please Log in.")
                                EXCEPT !.email = post_data.email]
        /\ UNCHANGED <<regions, events>>
        /\ Rest

\* POST /register
register ==
    \/ Reject("register")
    \/ \E auth \in AdmittedAuth("register"), post_data \in Registrations :
          register_body(auth, post_data)

\* a stored user has the email and the password of the request
CredentialsGood(us, cred) ==
    \E u \in UserByEmail(us, cred.email) :
        cred.password # ABSENT /\ check_password_hash(u.password_hash, cred.password)

\* login telling an unknown email from a wrong password
login_response_leaky(us, t, cred) ==
    LET found == UserByEmail(us, cred.email)
        user == CHOOSE u \in found : TRUE
    IN  IF cred.email = ABSENT \/ cred.password = ABSENT
        THEN [status |-> 401, msg |-> "Missing email or password", uid |-> 0, tok |-> NoToken]
        ELSE IF found = {}
        THEN [status |-> 401, msg |-> "Unknown email.", uid |-> 0, tok |-> NoToken]
        ELSE IF ~check_password_hash(user.password_hash, cred.password)
        THEN [status |-> 401, msg |-> "Incorrect email or password.", uid |-> 0, tok |-> NoToken]
        ELSE [status |-> 201, msg |-> "token", uid |-> user.id,
              tok |-> encode_auth_token(user.id, t)]

\* login encoding the token for the newest user instead of the one found
login_response_wrong_user(us, t, cred) ==
    LET found == UserByEmail(us, cred.email)
        user == CHOOSE u \in found : TRUE
    IN  IF cred.email = ABSENT \/ cred.password = ABSENT
        THEN [status |-> 401, msg |-> "Missing email or password", uid |-> 0, tok |-> NoToken]
        ELSE IF found = {} \/ ~check_password_hash(user.password_hash, cred.password)
        THEN [status |-> 401, msg |-> "Incorrect email or password.", uid |-> 0, tok |-> NoToken]
        ELSE [status |-> 201, msg |-> "token", uid |-> user.id,
              tok |-> encode_auth_token(NextUserId(us) - 1, t)]

\* the body of login: status, message, user_id and token of the response
login_response(us, t, cred) ==
    LET found == UserByEmail(us, cred.email)
        user == CHOOSE u \in found : TRUE
    IN  IF cred.email = ABSENT \/ cred.password = ABSENT
        THEN [status |-> 401, msg |-> "Missing email or password", uid |-> 0, tok |-> NoToken]
        ELSE IF found = {} \/ ~check_password_hash(user.password_hash, cred.password)
        THEN [status |-> 401, msg |-> "Incorrect email or password.", uid |-> 0, tok |-> NoToken]
        ELSE [status |-> 201, msg |-> "token", uid |-> user.id,
              tok |-> encode_auth_token(user.id, t)]

login_body(auth, cred) ==
    LET r == login_response(users, now, cred)
    IN  /\ last' = [Response("login", auth, TRUE, CredentialsGood(users, cred),
                             CredentialsPresent(cred), r.status, r.msg)
                       EXCEPT !.email = cred.email, !.uid = r.uid, !.tok = r.tok]
        /\ StoreUnchanged
        /\ Rest

\* POST /login; a request the decorator stops is recorded with the
\* credentials it carried
login ==
    \E cred \in Credentials :
        \/ /\ \E auth \in RejectedAuth("login") :
                 last' = [Unauthorized("login", auth)
                            EXCEPT !.hit = CredentialsGood(users, cred),
                                   !.valid = CredentialsPresent(cred),
                                   !.email = cred.email]
           /\ StoreUnchanged
           /\ Rest
        \/ \E auth \in AdmittedAuth("login") : login_body(auth, cred)

\* the client keeps the token of the login response, for its later requests
keep_token ==
    /\ last.op = "login" /\ last.status = 201
    /\ held' = last.tok
    /\ UNCHANGED <<regions, events, users, now, last, reg>>

\* time passes
Tick ==
    /\ now < MaxTime
    /\ now' = now + 1
    /\ UNCHANGED <<regions, events, users, held, last, reg>>

(***************************************************************************)
(* Two register requests in flight at once (SpecConc): each is admitted by *)
(* the decorator, looks the email up, and inserts and commits.             *)
(***************************************************************************)
Workers == {"r1", "r2"}

Idle == [pc |-> "idle", email |-> ABSENT, password |-> ABSENT, fresh |-> FALSE, status |-> 0]

\* the request arrives; fresh records that no user had the email then
reg_begin(w) ==
    /\ reg[w].pc = "idle"
    /\ \E post_data \in Registrations :
         LET arrived == [pc |-> "lookup", email |-> post_data.email,
                         password |-> post_data.password,
                         fresh |-> UserByEmail(users, post_data.email) = {}, status |-> 0]
         IN  \/ /\ AdmittedAuth("register") # {}
                 /\ reg' = [reg EXCEPT ![w] = arrived]
             \/ /\ RejectedAuth("register") # {}
                 /\ reg' = [reg EXCEPT ![w] = [arrived EXCEPT !.pc = "done", !.status = 401]]
    /\ UNCHANGED <<regions, events, users, now, held, last>>

reg_lookup(w) ==
    /\ reg[w].pc = "lookup"
    /\ reg' = [reg EXCEPT ![w] =
                 IF register_lookup(users, reg[w]) = {}
                 THEN [@ EXCEPT !.pc = "insert"]
                 ELSE [@ EXCEPT !.pc = "done", !.status = 409]]
    /\ UNCHANGED <<regions, events, users, now, held, last>>

reg_insert(w) ==
    LET ins == register_insert(users, reg[w])
    IN  /\ reg[w].pc = "insert"
        /\ NextUserId(users) \in UserIds
        /\ users' = ins.users
        /\ reg' = [reg EXCEPT ![w] = [@ EXCEPT !.pc = "done", !.status = ins.status]]
        /\ UNCHANGED <<regions, events, now, held, last>>

\* the response is sent; the worker is free for the next request
reg_end(w) ==
    /\ reg[w].pc = "done"
    /\ reg' = [reg EXCEPT ![w] = Idle]
    /\ UNCHANGED <<regions, events, users, now, held, last>>

(***************************************************************************)
(* Specifications.  Spec is the whole API at one time of the clock, with   *)
(* tokens that were minted before (some have expired) and a client that    *)
(* keeps no token.  SpecAuth is the authentication part as time passes,    *)
(* with a client that keeps a token from login, and the two deletes.       *)
(* SpecConc is two register requests in flight.                            *)
(***************************************************************************)
Init ==
    /\ regions = {}
    /\ events = {}
    /\ users = {}
    /\ now = 0
    /\ held = NoToken
    /\ last = NoRequest
    /\ reg = [w \in Workers |-> Idle]

Next ==
    \/ get_regions
    \/ get_region
    \/ get_events
    \/ get_event
    \/ add_event
    \/ add_region
    \/ delete_event
    \/ delete_region
    \/ event_update
    \/ region_update
    \/ register
    \/ login

Spec == Init /\ [][Next]_vars

\* the authentication part, on a store that holds a region and an event of it
InitAuth ==
    /\ regions = {[NOC |-> "ITA", region |-> "Italy", notes |-> NULL]}
    /\ events = {[id |-> 1, NOC |-> "ITA", year |-> "1960"]}
    /\ users = {}
    /\ now = 0
    /\ held = NoToken
    /\ last = NoRequest
    /\ reg = [w \in Workers |-> Idle]

NextAuth ==
    \/ register
    \/ login
    \/ keep_token
    \/ delete_event
    \/ delete_region
    \/ Tick

SpecAuth == InitAuth /\ [][NextAuth]_vars

NextConc ==
    \/ \E w \in Workers : reg_begin(w)
    \/ \E w \in Workers : reg_lookup(w)
    \/ \E w \in Workers : reg_insert(w)
    \/ \E w \in Workers : reg_end(w)

SpecConc == Init /\ [][NextConc]_vars

TypeOK ==
    /\ regions \subseteq RegionRow
    /\ events \subseteq EventRow
    /\ now \in 0..MaxTime

(***************************************************************************)
(* The claims.                                                             *)
(***************************************************************************)
\* the operations the specification lists as protected
ProtectedOps ==
    {"add_region", "region_update", "delete_region", "add_event", "event_update",
     "delete_event", "register", "login"}

HeldAdmitted(op) == Admitted(op, held)

ForgedOf(tok) == [tok EXCEPT !.mac = Sign(tok.uid, tok.exp, OtherKey)]

C4_LoginWithoutToken ==
    /\ (last.op = "login" /\ last.auth = "missing" /\ last.hit) =>
          /\ last.status = 201
          /\ last.tok # NoToken
          /\ \E u \in UserByEmail(users, last.email) :
                last.uid = u.id /\ last.tok.uid = u.id
    /\ (last.op = "login" /\ ~last.valid) => (last.status = 401 /\ last.tok = NoToken)

\* the whole answer to a login request: the decorator's or the handler's
LoginAnswer(tok, cred) ==
    IF Admitted("login", tok)
    THEN login_response(users, now, cred)
    ELSE [status |-> 401, msg |-> "token " \o Auth(tok), uid |-> 0, tok |-> NoToken]

\* c names no stored user / c names a stored user with another password
UnknownEmail(c) == CredentialsPresent(c) /\ UserByEmail(users, c.email) = {}

WrongPassword(c) ==
    /\ CredentialsPresent(c) /\ UserByEmail(users, c.email) # {}
    /\ ~CredentialsGood(users, c)

\* C5: with the same token, a login with an email of no user and a login
\* with a stored email and a wrong password get the same answer, a 401 with
\* the same message and no token.
C5_LoginGenericFailure ==
    \A tok \in Presented : \A c1, c2 \in Credentials :
        (UnknownEmail(c1) /\ WrongPassword(c2)) =>
            /\ LoginAnswer(tok, c1) = LoginAnswer(tok, c2)
            /\ LoginAnswer(tok, c1).status = 401
            /\ LoginAnswer(tok, c1).tok = NoToken

\* C5: a login with a stored email and a wrong password was just refused by
\* the handler while another email is unknown
C5_Witness ==
    /\ last.op = "login" /\ last.entered /\ last.valid /\ last.status = 401
    /\ UserByEmail(users, last.email) # {}
    /\ \E c \in Credentials : UnknownEmail(c)

\* C6: no two stored users have the same email; an admitted register with
\* email and password for an email of no user returns 201 and adds one user
\* with that email; one for a stored email returns 409 and leaves the users
\* as they were.
C6_RegisterUniqueEmail ==
    /\ [](\A u1, u2 \in users : u1.email = u2.email => u1 = u2)
    /\ [][(last' # last /\ last'.op = "register" /\ last'.entered /\ last'.valid) =>
            IF UserByEmail(users, last'.email) = {}
            THEN /\ last'.status = 201
                 /\ \E u \in users' : /\ u \notin users
                                       /\ users' = users \cup {u}
                                       /\ u.email = last'.email
            ELSE last'.status = 409 /\ users' = users]_vars

\* C6: a register for a stored email was answered 409 with two users stored
C6_Witness ==
    /\ last.op = "register" /\ last.status = 409 /\ last.valid
    /\ Cardinality(users) = 2

C8_GetEventStatus ==
    last.op = "get_event" => last.status = IF last.hit THEN 200 ELSE 404

\* C9: PATCH /events/<id> with a valid token, a stored id and a valid
\* partial body returns 200 with the update message.
C9_EventUpdated ==
    (last.op = "event_update" /\ last.auth = "ok" /\ last.hit /\ last.valid) =>
        (last.status = 200 /\ last.msg = "Event updated")

\* two admitted register requests with a password, in flight together for
\* the same email that no user had when either arrived, have both returned
BothReturned(w1, w2) ==
    /\ w1 # w2
    /\ reg[w1].pc = "done" /\ reg[w2].pc = "done"
    /\ reg[w1].status # 401 /\ reg[w2].status # 401
    /\ reg[w1].email = reg[w2].email /\ reg[w1].email # ABSENT
    /\ reg[w1].password # ABSENT /\ reg[w2].password # ABSENT
    /\ reg[w1].fresh /\ reg[w2].fresh

\* C10: of two register requests for the same unregistered email, however
\* their lookups and inserts interleave, at most one user with the email is
\* stored, one request returns 201 and the other 409 or 500.
C10_ConcurrentRegister ==
    /\ \A e \in Emails : Cardinality(UserByEmail(users, e)) <= 1
    /\ \A w1, w2 \in Workers :
          BothReturned(w1, w2) =>
              \/ reg[w1].status = 201 /\ reg[w2].status \in {409, 500}
              \/ reg[w2].status = 201 /\ reg[w1].status \in {409, 500}

\* C10: both requests looked up before either inserted: one 201, one 500
C10_Witness ==
    /\ BothReturned("r1", "r2")
    /\ reg["r1"].status = 201 /\ reg["r2"].status = 500

\* the NOC codes of a set of region rows
Codes(rs) == {r.NOC : r \in rs}

\* C11: a PATCH /regions/<code> that the decorator admits and whose body
\* partial schema validation accepts, for a stored or an unstored code,
\* leaves the set of stored NOC codes what it was, and every stored region
\* whose NOC is not the path code is after the request what it was before.
C11_RegionUpdateFrame ==
    [][\A auth \in AdmittedAuth("region_update"), code \in PathCodes, body \in RegionBodies :
          (RegionBodyValid(body, TRUE) /\ region_update_body(auth, code, body)) =>
              /\ Codes(regions') = Codes(regions)
              /\ \A r \in regions : r.NOC # code => r \in regions']_vars

====
